---- MODULE Spec2Model ----
(***************************************************************************)
(* NotesVault localization service                                         *)
(* (src/src/lib/services/localizationService.ts and the localization       *)
(* resources module, src/unnamed/part_000).                                *)
(*                                                                         *)
(* JavaScript runs one task at a time to its next await.  `running` names  *)
(* the call that holds the thread; a call suspended at an await is resumed *)
(* only when no call is running, and the calls whose awaits have settled   *)
(* are resumed in the order in which they settled (`ready`, the microtask  *)
(* queue).  Every statement sequence between two awaits is modelled by the *)
(* steps of its call, taken while it is running.                           *)
(***************************************************************************)
EXTENDS Integers, Sequences, FiniteSets, TLC

(***************************************************************************)
(* Bounds of the model                                                     *)
(***************************************************************************)
\* concurrent initialize() calls
MaxInitCalls == 2
\* concurrent changeLanguage() calls
MaxChangeCalls == 1
\* subscribe() calls over a run
MaxSubs == 2
\* subscribe() calls over a run of the life-cycle specification
LifecycleSubs == 1

(***************************************************************************)
(* Static data                                                             *)
(***************************************************************************)
\* enum AppLanguage
AppLanguage == {"en", "fr"}

FALLBACK_LANGUAGE == "en"

\* absent value: undefined / null
NoValue == "undefined"

\* language codes a caller, the store or the device may hold; "de" is a
\* well-formed code outside the enum
LanguageCodes == {"en", "fr", "de"}

STORAGE_KEYS ==
  [CURRENT_LANGUAGE |-> "current_language",
   LANGUAGE_OVERRIDE |-> "language_override",
   LANGUAGE_CACHE_PREFIX |-> "lang_cache_"]

\* `${LANGUAGE_CACHE_PREFIX}${language}`
CacheKey(language) ==
  IF language = "en" THEN "lang_cache_en" ELSE "lang_cache_fr"

\* en.json as the life-cycle specifications load it: the reference table
\* (every canonical key)
en == ("app.name" :> "NotesVault") @@ ("greeting" :> "Hello")

\* fr.json as the life-cycle specifications load it: a partial table
fr == ("greeting" :> "Bonjour")

\* { ...a, ...b }
Spread(a, b) ==
  [k \in (DOMAIN a) \cup (DOMAIN b) |-> IF k \in DOMAIN b THEN b[k] ELSE a[k]]

\* JSON.stringify(translations): the table as text
JSONstringify(table) == <<"json", table>>

\* the `translations` argument of initialize, a Partial<Record<AppLanguage,
\* Localizations>>: none (initializeI18n's default),
NoTranslations == [l \in {} |-> en]

\* or a caller's own table for one language
CustomTranslations == [l \in {"fr"} |-> ("greeting" :> "Salut")]

\* callbacks a caller may subscribe
Callbacks == {"A", "B"}

\* keys a translation table may hold
TableKeys == {"app.name", "greeting"}

\* the tables over some of the keys, every string the one given
TablesOf(text) == {[k \in keys |-> text] : keys \in SUBSET TableKeys}

\* contents en.json may have: the canonical keys are the keys it holds
ReferenceTables == TablesOf("reference") \ {[k \in {} |-> "reference"]}

\* contents fr.json may have
RawTables == TablesOf("raw")

\* the `translations` arguments a caller may pass: no table, or a table for
\* one language
Overrides ==
  {NoTranslations}
    \cup UNION {[{l} -> TablesOf("override")] : l \in AppLanguage}

(***************************************************************************)
(* Calls in flight                                                         *)
(***************************************************************************)
InitProcs == 1 .. MaxInitCalls

ChangeProcs == (MaxInitCalls + 1) .. (MaxInitCalls + MaxChangeCalls)

Procs == InitProcs \cup ChangeProcs

\* a call slot that holds no call in flight
Free(state) == state \in {"idle", "returned early", "returned", "threw"}

\* the faults the environment may raise during one synchronous run
ReadFaults ==
  SUBSET {STORAGE_KEYS.LANGUAGE_OVERRIDE, STORAGE_KEYS.CURRENT_LANGUAGE, "getLocales"}

VARIABLES
  languageSource,    \* the imported en.json and fr.json, by language
  lastCall,          \* the call a caller made in the last step, and its result
  store,             \* localizationStorage: the keys present and their strings
  deviceLocales,     \* what getLocales() returns: a sequence of language codes
  translationCache,  \* Map<AppLanguage, Localizations>
  i18n,              \* the i18next engine: its language, resources, readiness
  currentLanguage,   \* LocalizationService.currentLanguage
  isInitialized,     \* LocalizationService.isInitialized
  listeners,         \* LanguageChangeEmitter.listeners, each with its subscribe number
  regs,              \* the subscribe calls made so far: callback of each
  cancelled,         \* subscribe numbers whose unsubscribe function was called
  pc,                \* position of each call
  local,             \* initialLanguage of an initialize, language of a changeLanguage
  error,             \* the error a call threw to its caller
  running,           \* the call holding the thread: {} or {p}
  ready,             \* the microtask queue: calls whose await settled, oldest first
  emitIdx,           \* forEach: next index
  emitLen,           \* forEach: length read when the loop began
  emitSnapshot,      \* listeners when the last emit began
  delivered,         \* listener invocations of the last emit, in order
  effects,           \* what each changeLanguage call has done so far, in order
  resolution,        \* what the last getInitialLanguage read and returned
  assignedBy         \* who assigned currentLanguage last

vars ==
  <<languageSource, lastCall, store, deviceLocales, translationCache, i18n, currentLanguage,
    isInitialized, listeners, regs, cancelled, pc, local, error, running,
    ready, emitIdx, emitLen, emitSnapshot, delivered, effects, resolution,
    assignedBy>>

(***************************************************************************)
(* Maps (a Map, the key-value store, an object used as a dictionary)       *)
(***************************************************************************)
EmptyMap == [k \in {} |-> NoValue]

(***************************************************************************)
(* Localization resources (src/unnamed/part_000)                           *)
(***************************************************************************)
\* languageFactories[language]()
languageFactories(language) ==
  IF language = "en"
    THEN languageSource.en
    ELSE Spread(languageSource.en, languageSource.fr)

\* what the App passes to initialize: each language's factory table
AppTranslations == [l \in AppLanguage |-> languageFactories(l)]

\* listMissingStringsForLanguage listing every key of en.json
listMissingStringsAll(source) == languageSource.en

\* listMissingStringsForLanguage(source)
listMissingStringsForLanguage(source) ==
  LET language == languageSource[source]
      keysForLanguage == DOMAIN language
  IN  [key \in {k \in DOMAIN languageSource.en : k \notin keysForLanguage} |->
         languageSource.en[key]]

\* a call, its argument and what it gave back at once; fault: a storage
\* operation threw inside it (and was caught there)
Call(op, argument, output, fault) ==
  [op |-> op, argument |-> argument, output |-> output, fault |-> fault]

\* the last step was no call of a caller
NoCall == Call(NoValue, NoValue, NoValue, FALSE)

\* a caller runs the diagnostic for one language
ListMissing(source) ==
  /\ running = {}
  /\ lastCall' = Call("listMissingStringsForLanguage", source,
                      listMissingStringsForLanguage(source), FALSE)
  /\ UNCHANGED <<languageSource, store, deviceLocales, translationCache, i18n,
                 currentLanguage, isInitialized, listeners, regs, cancelled,
                 pc, local, error, running, ready, emitIdx, emitLen,
                 emitSnapshot, delivered, effects, resolution, assignedBy>>

Put(map, key, value) ==
  [k \in (DOMAIN map) \cup {key} |-> IF k = key THEN value ELSE map[k]]

\* localizationStorage.getString(key)
getString(key) == IF key \in DOMAIN store THEN store[key] ELSE NoValue

(***************************************************************************)
(* Language resolution.  `faults` holds the reads that throw in this run.  *)
(***************************************************************************)
getLanguageOverride(faults) ==
  IF STORAGE_KEYS.LANGUAGE_OVERRIDE \in faults
    THEN NoValue
    ELSE LET override == getString(STORAGE_KEYS.LANGUAGE_OVERRIDE)
         IN  IF override # NoValue /\ override \in AppLanguage
               THEN override
               ELSE NoValue

\* getSavedLanguage without its try/catch: the failed read reaches the caller
getSavedLanguageRethrows(faults) ==
  IF STORAGE_KEYS.CURRENT_LANGUAGE \in faults
    THEN "throws"
    ELSE LET saved == getString(STORAGE_KEYS.CURRENT_LANGUAGE)
         IN  IF saved # NoValue /\ saved \in AppLanguage
               THEN saved
               ELSE NoValue

getSavedLanguage(faults) ==
  IF STORAGE_KEYS.CURRENT_LANGUAGE \in faults
    THEN NoValue
    ELSE LET saved == getString(STORAGE_KEYS.CURRENT_LANGUAGE)
         IN  IF saved # NoValue /\ saved \in AppLanguage
               THEN saved
               ELSE NoValue

getDeviceLanguage(faults) ==
  IF "getLocales" \in faults
    THEN FALLBACK_LANGUAGE
    ELSE LET deviceLang == IF Len(deviceLocales) > 0
                             THEN deviceLocales[1]
                             ELSE NoValue
         IN  IF deviceLang # NoValue /\ deviceLang \in AppLanguage
               THEN deviceLang
               ELSE FALLBACK_LANGUAGE

\* getInitialLanguage consulting the device before the saved language
getInitialLanguageDeviceFirst(allowLanguageOverride, faults) ==
  LET override == IF allowLanguageOverride
                    THEN getLanguageOverride(faults)
                    ELSE NoValue
      deviceLanguage == getDeviceLanguage(faults)
  IN  IF override # NoValue
        THEN override
        ELSE IF deviceLanguage # FALLBACK_LANGUAGE
               THEN deviceLanguage
               ELSE IF getSavedLanguage(faults) # NoValue
                      THEN getSavedLanguage(faults)
                      ELSE deviceLanguage

getInitialLanguage(allowLanguageOverride, faults) ==
  LET override == IF allowLanguageOverride
                    THEN getLanguageOverride(faults)
                    ELSE NoValue
      savedLanguage == getSavedLanguage(faults)
  IN  IF override # NoValue
        THEN override
        ELSE IF savedLanguage # NoValue
               THEN savedLanguage
               ELSE getDeviceLanguage(faults)

\* what one resolution read at each level ("throws" when the read failed)
Observed(allowLanguageOverride, faults) ==
  [allow    |-> allowLanguageOverride,
   override |-> IF STORAGE_KEYS.LANGUAGE_OVERRIDE \in faults
                  THEN "throws"
                  ELSE getString(STORAGE_KEYS.LANGUAGE_OVERRIDE),
   saved    |-> IF STORAGE_KEYS.CURRENT_LANGUAGE \in faults
                  THEN "throws"
                  ELSE getString(STORAGE_KEYS.CURRENT_LANGUAGE),
   device   |-> IF "getLocales" \in faults
                  THEN "throws"
                  ELSE IF Len(deviceLocales) > 0
                         THEN deviceLocales[1]
                         ELSE NoValue,
   result   |-> getInitialLanguage(allowLanguageOverride, faults)]

(***************************************************************************)
(* Translation cache                                                       *)
(***************************************************************************)
\* loadTranslations spreading the factory's table over the caller's
MergedTranslationsBaseWins(language, translations) ==
  LET baseTranslations == languageFactories(language)
  IN  IF language \in DOMAIN translations
        THEN Spread(translations[language], baseTranslations)
        ELSE baseTranslations

\* the entry loadTranslations computes for a language that is not cached
MergedTranslations(language, translations) ==
  LET baseTranslations == languageFactories(language)
  IN  IF language \in DOMAIN translations
        THEN Spread(baseTranslations, translations[language])
        ELSE baseTranslations

\* loadTranslations without its `!translationCache.has(language)` test
LoadedCacheReplacing(translations) ==
  [l \in AppLanguage |-> MergedTranslations(l, translations)]

\* translationCache after loadTranslations(translations)
LoadedCache(translations) ==
  [l \in AppLanguage |->
     IF l \in DOMAIN translationCache
       THEN translationCache[l]
       ELSE MergedTranslations(l, translations)]

\* the store after loadTranslations: cacheTranslations mirrors each new entry,
\* except where localizationStorage.set throws (writeFaults)
MirroredStore(translations, writeFaults) ==
  LET fresh == {l \in AppLanguage :
                  l \notin DOMAIN translationCache /\ CacheKey(l) \notin writeFaults}
      key(l) == CacheKey(l)
  IN  [k \in (DOMAIN store) \cup {key(l) : l \in fresh} |->
         IF \E l \in fresh : k = key(l)
           THEN LET l == CHOOSE x \in fresh : k = key(x)
                IN  JSONstringify(MergedTranslations(l, translations))
           ELSE store[k]]

buildI18nResources ==
  [l \in DOMAIN translationCache |-> [translation |-> translationCache[l]]]

\* getCacheStats()
getCacheStats ==
  [cachedLanguages |-> Cardinality(DOMAIN translationCache),
   storageSize |-> Cardinality(DOMAIN store)]

(***************************************************************************)
(* Initial state: a fresh process over a store left by an earlier one      *)
(***************************************************************************)
StoredChoices == LanguageCodes \cup {NoValue}

InitialStore(saved, override) ==
  [k \in {x \in {STORAGE_KEYS.CURRENT_LANGUAGE, STORAGE_KEYS.LANGUAGE_OVERRIDE} :
            IF x = STORAGE_KEYS.CURRENT_LANGUAGE
              THEN saved # NoValue
              ELSE override # NoValue} |->
     IF k = STORAGE_KEYS.CURRENT_LANGUAGE THEN saved ELSE override]

NoResolution ==
  [allow |-> FALSE, override |-> NoValue, saved |-> NoValue,
   device |-> NoValue, result |-> NoValue]

\* the tables the repository ships
ShippedTables == [l \in AppLanguage |-> IF l = "en" THEN en ELSE fr]

\* the memory of a process that has just loaded the module
FreshMemory ==
  /\ lastCall = NoCall
  /\ translationCache = EmptyMap
  /\ i18n = [language |-> NoValue, resources |-> EmptyMap, isInitialized |-> FALSE]
  /\ currentLanguage = FALLBACK_LANGUAGE
  /\ isInitialized = FALSE
  /\ listeners = <<>>
  /\ regs = <<>>
  /\ cancelled = {}
  /\ pc = [p \in Procs |-> "idle"]
  /\ local = [p \in Procs |-> NoValue]
  /\ error = [p \in Procs |-> NoValue]
  /\ running = {}
  /\ ready = <<>>
  /\ emitIdx = 0
  /\ emitLen = 0
  /\ emitSnapshot = <<>>
  /\ delivered = <<>>
  /\ effects = [p \in ChangeProcs |-> <<>>]
  /\ resolution = NoResolution
  /\ assignedBy = "constructor"

\* a fresh process over a store and a device, whatever tables it imported
StartState(saved, override, device) ==
  /\ store = InitialStore(saved, override)
  /\ deviceLocales = IF device = NoValue THEN <<>> ELSE <<device>>
  /\ FreshMemory

\* a fresh process of the application as shipped
InitState(saved, override, device) ==
  /\ languageSource = ShippedTables
  /\ StartState(saved, override, device)

\* the lowest slot of a set of call slots that holds no call in flight
IsLowestFree(p, slots) ==
  /\ p \in slots
  /\ Free(pc[p])
  /\ \A q \in slots : q < p => ~Free(pc[q])

(***************************************************************************)
(* initialize(translations, allowLanguageOverride)                         *)
(***************************************************************************)
\* the guard of initialize's early return
AlreadyInitializedIgnored == FALSE

AlreadyInitialized == isInitialized

\* initialize up to `await this.loadTranslations(translations)`:
\* the early return, or getInitialLanguage and loadTranslations
Initialize(p, translations, allowLanguageOverride, faults, writeFaults) ==
  /\ running = {}
  /\ IsLowestFree(p, InitProcs)
  /\ error' = [error EXCEPT ![p] = NoValue]
  /\ IF AlreadyInitialized
       THEN /\ pc' = [pc EXCEPT ![p] = "returned early"]
            /\ local' = [local EXCEPT ![p] = NoValue]
            /\ UNCHANGED <<store, translationCache, resolution, ready>>
       ELSE /\ local' = [local EXCEPT ![p] =
                          getInitialLanguage(allowLanguageOverride, faults)]
            /\ resolution' = Observed(allowLanguageOverride, faults)
            /\ translationCache' = LoadedCache(translations)
            /\ store' = MirroredStore(translations, writeFaults)
            /\ pc' = [pc EXCEPT ![p] = "awaitLoad"]
            /\ ready' = Append(ready, p)
  /\ lastCall' = Call("initialize", translations, NoValue, FALSE)
  /\ UNCHANGED languageSource
  /\ UNCHANGED <<deviceLocales, i18n, currentLanguage, isInitialized, listeners,
                 regs, cancelled, running, emitIdx, emitLen, emitSnapshot,
                 delivered, effects, assignedBy>>

\* the call `i18n.use(initReactI18next).init({lng, resources, ...})`: the engine
\* takes the resources built from the cache as it is now
InitializeCallEngine(p) ==
  /\ running = {}
  /\ p \in InitProcs
  /\ pc[p] = "awaitLoad"
  /\ ready # <<>> /\ Head(ready) = p
  /\ ready' = Tail(ready)
  /\ i18n' = [i18n EXCEPT !.resources = buildI18nResources]
  /\ pc' = [pc EXCEPT ![p] = "awaitEngine"]
  /\ resolution' = NoResolution
  /\ lastCall' = NoCall
  /\ UNCHANGED languageSource
  /\ UNCHANGED <<store, deviceLocales, translationCache, currentLanguage,
                 isInitialized, listeners, regs, cancelled, local, error,
                 running, emitIdx, emitLen, emitSnapshot, delivered, effects,
                 assignedBy>>

\* the engine finishes its setup: it is ready, in the language asked for
EngineInitResolve(p) ==
  /\ running = {}
  /\ p \in InitProcs
  /\ pc[p] = "awaitEngine"
  /\ ready' = Append(ready, p)
  /\ i18n' = [i18n EXCEPT !.language = local[p], !.isInitialized = TRUE]
  /\ pc' = [pc EXCEPT ![p] = "resume"]
  /\ lastCall' = NoCall
  /\ UNCHANGED languageSource
  /\ UNCHANGED <<store, deviceLocales, translationCache, currentLanguage,
                 isInitialized, listeners, regs, cancelled, local, error,
                 running, emitIdx, emitLen, emitSnapshot, delivered, effects,
                 resolution, assignedBy>>

\* the engine's setup throws
EngineInitReject(p) ==
  /\ running = {}
  /\ p \in InitProcs
  /\ pc[p] = "awaitEngine"
  /\ ready' = Append(ready, p)
  /\ pc' = [pc EXCEPT ![p] = "rejected"]
  /\ lastCall' = NoCall
  /\ UNCHANGED languageSource
  /\ UNCHANGED <<store, deviceLocales, translationCache, i18n, currentLanguage,
                 isInitialized, listeners, regs, cancelled, local, error,
                 running, emitIdx, emitLen, emitSnapshot, delivered, effects,
                 resolution, assignedBy>>

\* after the await: this.currentLanguage = initialLanguage; this.isInitialized = true
InitializeResume(p) ==
  /\ running = {}
  /\ p \in InitProcs
  /\ pc[p] = "resume"
  /\ ready # <<>> /\ Head(ready) = p
  /\ ready' = Tail(ready)
  /\ currentLanguage' = local[p]
  /\ isInitialized' = TRUE
  /\ assignedBy' = "initialize"
  /\ pc' = [pc EXCEPT ![p] = "returned"]
  /\ local' = [local EXCEPT ![p] = NoValue]
  /\ lastCall' = NoCall
  /\ UNCHANGED languageSource
  /\ UNCHANGED <<store, deviceLocales, translationCache, i18n, listeners, regs,
                 cancelled, error, running, emitIdx, emitLen, emitSnapshot,
                 delivered, effects, resolution>>

\* what the catch block of initialize leaves in isInitialized
InitializeCatchReady == TRUE

InitializeCatchState == isInitialized

\* catch (error) { console.error(...); throw error; }
InitializeCatch(p) ==
  /\ running = {}
  /\ p \in InitProcs
  /\ pc[p] = "rejected"
  /\ ready # <<>> /\ Head(ready) = p
  /\ ready' = Tail(ready)
  /\ isInitialized' = InitializeCatchState
  /\ pc' = [pc EXCEPT ![p] = "threw"]
  /\ error' = [error EXCEPT ![p] = "InitializationError"]
  /\ local' = [local EXCEPT ![p] = NoValue]
  /\ lastCall' = NoCall
  /\ UNCHANGED languageSource
  /\ UNCHANGED <<store, deviceLocales, translationCache, i18n, currentLanguage,
                 listeners, regs, cancelled, running, emitIdx, emitLen,
                 emitSnapshot, delivered, effects, resolution, assignedBy>>

(***************************************************************************)
(* LanguageChangeEmitter                                                   *)
(***************************************************************************)
\* this.listeners.indexOf(listener): the first position holding the callback, 0 if none
IndexOf(array, callback) ==
  IF \E i \in 1 .. Len(array) : array[i].callback = callback
    THEN CHOOSE i \in 1 .. Len(array) :
           /\ array[i].callback = callback
           /\ \A j \in 1 .. (i - 1) : array[j].callback # callback
    ELSE 0

\* array.splice(index, 1)
Splice(array, index) ==
  [i \in 1 .. (Len(array) - 1) |-> IF i < index THEN array[i] ELSE array[i + 1]]

\* the function subscribe returned, called: the listeners left
Unsubscribed(array, callback) ==
  LET index == IndexOf(array, callback)
  IN  IF index > 0 THEN Splice(array, index) ELSE array

\* this.listeners.push(listener)
Pushed(array, callback, reg) ==
  Append(array, [callback |-> callback, reg |-> reg])

\* onLanguageChange(listener) / subscribe(listener)
Subscribe(callback, limit) ==
  /\ running = {}
  /\ Len(regs) < limit
  /\ regs' = Append(regs, callback)
  /\ listeners' = Pushed(listeners, callback, Len(regs) + 1)
  /\ lastCall' = NoCall
  /\ UNCHANGED languageSource
  /\ UNCHANGED <<store, deviceLocales, translationCache, i18n, currentLanguage,
                 isInitialized, cancelled, pc, local, error, running, emitIdx,
                 emitLen, emitSnapshot, delivered, effects, resolution,
                 assignedBy, ready>>

\* a caller calls the function that subscribe call number r returned
Unsubscribe(r) ==
  /\ running = {}
  /\ r \in 1 .. Len(regs)
  /\ listeners' = Unsubscribed(listeners, regs[r])
  /\ cancelled' = cancelled \cup {r}
  /\ lastCall' = NoCall
  /\ UNCHANGED languageSource
  /\ UNCHANGED <<store, deviceLocales, translationCache, i18n, currentLanguage,
                 isInitialized, regs, pc, local, error, running, emitIdx,
                 emitLen, emitSnapshot, delivered, effects, resolution,
                 assignedBy, ready>>

(***************************************************************************)
(* changeLanguage(language)                                                *)
(***************************************************************************)
\* Object.values(AppLanguage).includes(language)
IsSupportedAny(language) == TRUE

IsSupported(language) == language \in AppLanguage

\* changeLanguage up to `await i18n.changeLanguage(language)`
ChangeLanguage(p, language) ==
  /\ running = {}
  /\ IsLowestFree(p, ChangeProcs)
  /\ local' = [local EXCEPT ![p] = language]
  /\ effects' = [effects EXCEPT ![p] = <<>>]
  /\ IF ~IsSupported(language)
       THEN /\ pc' = [pc EXCEPT ![p] = "threw"]
            /\ error' = [error EXCEPT ![p] = "UnsupportedLanguageError"]
       ELSE /\ pc' = [pc EXCEPT ![p] = "awaitEngine"]
            /\ error' = [error EXCEPT ![p] = NoValue]
  /\ lastCall' = NoCall
  /\ UNCHANGED languageSource
  /\ UNCHANGED <<store, deviceLocales, translationCache, i18n, currentLanguage,
                 isInitialized, listeners, regs, cancelled, running, emitIdx,
                 emitLen, emitSnapshot, delivered, resolution, assignedBy,
                 ready>>

\* the engine switches to the language asked for
EngineChangeResolve(p) ==
  /\ running = {}
  /\ p \in ChangeProcs
  /\ pc[p] = "awaitEngine"
  /\ ready' = Append(ready, p)
  /\ i18n' = [i18n EXCEPT !.language = local[p]]
  /\ effects' = [effects EXCEPT ![p] = Append(@, "engine")]
  /\ pc' = [pc EXCEPT ![p] = "resume"]
  /\ lastCall' = NoCall
  /\ UNCHANGED languageSource
  /\ UNCHANGED <<store, deviceLocales, translationCache, currentLanguage,
                 isInitialized, listeners, regs, cancelled, local, error,
                 running, emitIdx, emitLen, emitSnapshot, delivered, resolution,
                 assignedBy>>

\* the engine fails to switch
EngineChangeReject(p) ==
  /\ running = {}
  /\ p \in ChangeProcs
  /\ pc[p] = "awaitEngine"
  /\ ready' = Append(ready, p)
  /\ pc' = [pc EXCEPT ![p] = "rejected"]
  /\ lastCall' = NoCall
  /\ UNCHANGED languageSource
  /\ UNCHANGED <<store, deviceLocales, translationCache, i18n, currentLanguage,
                 isInitialized, listeners, regs, cancelled, local, error,
                 running, emitIdx, emitLen, emitSnapshot, delivered, effects,
                 resolution, assignedBy>>

\* catch (error) { console.error(...); throw error; }
ChangeCatch(p) ==
  /\ running = {}
  /\ p \in ChangeProcs
  /\ pc[p] = "rejected"
  /\ ready # <<>> /\ Head(ready) = p
  /\ ready' = Tail(ready)
  /\ pc' = [pc EXCEPT ![p] = "threw"]
  /\ error' = [error EXCEPT ![p] = "EngineError"]
  /\ local' = [local EXCEPT ![p] = NoValue]
  /\ effects' = [effects EXCEPT ![p] = <<>>]
  /\ lastCall' = NoCall
  /\ UNCHANGED languageSource
  /\ UNCHANGED <<store, deviceLocales, translationCache, i18n, currentLanguage,
                 isInitialized, listeners, regs, cancelled, running, emitIdx,
                 emitLen, emitSnapshot, delivered, resolution, assignedBy>>

\* changeLanguage persisting the language before it assigns this.currentLanguage
ChangeAssignAfterSave(p) ==
  /\ running = {}
  /\ p \in ChangeProcs
  /\ pc[p] = "resume"
  /\ ready # <<>> /\ Head(ready) = p
  /\ ready' = Tail(ready)
  /\ running' = {p}
  /\ store' = Put(store, STORAGE_KEYS.CURRENT_LANGUAGE, local[p])
  /\ currentLanguage' = local[p]
  /\ assignedBy' = "changeLanguage"
  /\ effects' = [effects EXCEPT ![p] = Append(Append(@, "persist"), "state")]
  /\ pc' = [pc EXCEPT ![p] = "emit"]
  /\ lastCall' = NoCall
  /\ UNCHANGED languageSource
  /\ UNCHANGED <<deviceLocales, translationCache, i18n, isInitialized,
                 listeners, regs, cancelled, local, error, emitIdx, emitLen,
                 emitSnapshot, delivered, resolution>>

\* after the await: this.currentLanguage = language
ChangeAssign(p) ==
  /\ running = {}
  /\ p \in ChangeProcs
  /\ pc[p] = "resume"
  /\ ready # <<>> /\ Head(ready) = p
  /\ ready' = Tail(ready)
  /\ running' = {p}
  /\ currentLanguage' = local[p]
  /\ assignedBy' = "changeLanguage"
  /\ effects' = [effects EXCEPT ![p] = Append(@, "state")]
  /\ pc' = [pc EXCEPT ![p] = "save"]
  /\ lastCall' = NoCall
  /\ UNCHANGED languageSource
  /\ UNCHANGED <<store, deviceLocales, translationCache, i18n, isInitialized,
                 listeners, regs, cancelled, local, error, emitIdx, emitLen,
                 emitSnapshot, delivered, resolution>>

\* saveLanguage writing nothing
saveLanguageDropped(language, fails) == store

\* saveLanguage(language): the store it leaves; `fails` when localizationStorage.set throws
saveLanguage(language, fails) ==
  IF fails THEN store ELSE Put(store, STORAGE_KEYS.CURRENT_LANGUAGE, language)

\* this.saveLanguage(language)
ChangeSave(p, fails) ==
  /\ running = {p}
  /\ p \in ChangeProcs
  /\ pc[p] = "save"
  /\ store' = saveLanguage(local[p], fails)
  /\ effects' = [effects EXCEPT ![p] =
                   Append(@, IF fails THEN "persist failed" ELSE "persist")]
  /\ pc' = [pc EXCEPT ![p] = "emit"]
  /\ lastCall' = NoCall
  /\ UNCHANGED languageSource
  /\ UNCHANGED <<deviceLocales, translationCache, i18n, currentLanguage,
                 isInitialized, listeners, regs, cancelled, local, error,
                 running, emitIdx, emitLen, emitSnapshot, delivered, resolution,
                 assignedBy, ready>>

\* languageChangeEmitter.emit(language): forEach reads the length once
EmitBegin(p) ==
  /\ running = {p}
  /\ p \in ChangeProcs
  /\ pc[p] = "emit"
  /\ emitLen' = Len(listeners)
  /\ emitIdx' = 1
  /\ emitSnapshot' = listeners
  /\ delivered' = <<>>
  /\ effects' = [effects EXCEPT ![p] = Append(@, "emit")]
  /\ pc' = [pc EXCEPT ![p] = "emitting"]
  /\ lastCall' = NoCall
  /\ UNCHANGED languageSource
  /\ UNCHANGED <<store, deviceLocales, translationCache, i18n, currentLanguage,
                 isInitialized, listeners, regs, cancelled, local, error,
                 running, resolution, assignedBy, ready>>

\* a loop that walks the array from its end
VisitedBackwards(array, k) ==
  IF k <= Len(array) THEN <<array[Len(array) + 1 - k]>> ELSE <<>>

\* the listener forEach visits at position k of the array as it is now
\* (a position past the end of the array is skipped)
Visited(array, k) == IF k <= Len(array) THEN <<array[k]>> ELSE <<>>

\* one turn of forEach: listener(language).  The listener invoked may call an
\* unsubscribe function (react = the subscribe number, 0 for none).
EmitStep(p, react) ==
  /\ running = {p}
  /\ p \in ChangeProcs
  /\ pc[p] = "emitting"
  /\ emitIdx <= emitLen
  /\ LET visited == Visited(listeners, emitIdx)
     IN  IF visited # <<>>
           THEN /\ delivered' = Append(delivered,
                     [reg |-> visited[1].reg, callback |-> visited[1].callback,
                      language |-> local[p]])
                /\ react \in 0 .. Len(regs)
                /\ IF react = 0
                     THEN UNCHANGED <<listeners, cancelled>>
                     ELSE /\ listeners' = Unsubscribed(listeners, regs[react])
                          /\ cancelled' = cancelled \cup {react}
           ELSE /\ react = 0
                /\ UNCHANGED <<delivered, listeners, cancelled>>
  /\ emitIdx' = emitIdx + 1
  /\ lastCall' = NoCall
  /\ UNCHANGED languageSource
  /\ UNCHANGED <<store, deviceLocales, translationCache, i18n, currentLanguage,
                 isInitialized, regs, pc, local, error, running, emitLen,
                 emitSnapshot, effects, resolution, assignedBy, ready>>

\* forEach is over: console.log, and the call returns
EmitEnd(p) ==
  /\ running = {p}
  /\ p \in ChangeProcs
  /\ pc[p] = "emitting"
  /\ emitIdx > emitLen
  /\ pc' = [pc EXCEPT ![p] = "exit"]
  /\ lastCall' = NoCall
  /\ UNCHANGED languageSource
  /\ UNCHANGED <<store, deviceLocales, translationCache, i18n, currentLanguage,
                 isInitialized, listeners, regs, cancelled, local, error,
                 running, emitIdx, emitLen, emitSnapshot, delivered, effects,
                 resolution, assignedBy, ready>>

\* the call returns to its caller; the record of what it did is dropped
ChangeReturn(p) ==
  /\ running = {p}
  /\ p \in ChangeProcs
  /\ pc[p] = "exit"
  /\ pc' = [pc EXCEPT ![p] = "returned"]
  /\ running' = {}
  /\ emitIdx' = 0
  /\ emitLen' = 0
  /\ emitSnapshot' = <<>>
  /\ delivered' = <<>>
  /\ effects' = [effects EXCEPT ![p] = <<>>]
  /\ local' = [local EXCEPT ![p] = NoValue]
  /\ lastCall' = NoCall
  /\ UNCHANGED languageSource
  /\ UNCHANGED <<store, deviceLocales, translationCache, i18n, currentLanguage,
                 isInitialized, listeners, regs, cancelled, error, resolution,
                 assignedBy, ready>>

(***************************************************************************)
(* clearCache()                                                            *)
(***************************************************************************)
\* clearCache without translationCache.clear()
ClearCacheStoreOnly(fails) ==
  /\ running = {}
  /\ store' = IF fails THEN store ELSE EmptyMap
  /\ lastCall' = Call("clearCache", NoValue, NoValue, fails)
  /\ UNCHANGED <<languageSource, translationCache, deviceLocales, i18n,
                 currentLanguage, isInitialized, listeners, regs, cancelled,
                 pc, local, error, running, emitIdx, emitLen, emitSnapshot,
                 delivered, effects, resolution, assignedBy, ready>>

\* clearCache dropping the tables of the engine as well
ClearCacheResetsEngine(fails) ==
  /\ running = {}
  /\ translationCache' = EmptyMap
  /\ store' = IF fails THEN store ELSE EmptyMap
  /\ i18n' = [i18n EXCEPT !.resources = EmptyMap]
  /\ lastCall' = Call("clearCache", NoValue, NoValue, fails)
  /\ UNCHANGED <<languageSource, deviceLocales, currentLanguage, isInitialized,
                 listeners, regs, cancelled, pc, local, error, running,
                 emitIdx, emitLen, emitSnapshot, delivered, effects,
                 resolution, assignedBy, ready>>

\* translationCache.clear(); localizationStorage.clearAll() (which may throw)
ClearCache(fails) ==
  /\ running = {}
  /\ translationCache' = EmptyMap
  /\ store' = IF fails THEN store ELSE EmptyMap
  /\ lastCall' = Call("clearCache", NoValue, NoValue, fails)
  /\ UNCHANGED languageSource
  /\ UNCHANGED <<deviceLocales, i18n, currentLanguage, isInitialized, listeners,
                 regs, cancelled, pc, local, error, running, emitIdx, emitLen,
                 emitSnapshot, delivered, effects, resolution, assignedBy,
                 ready>>

\* a caller asks for getCacheStats()
GetCacheStats ==
  /\ running = {}
  /\ lastCall' = Call("getCacheStats", NoValue, getCacheStats, FALSE)
  /\ UNCHANGED <<languageSource, store, deviceLocales, translationCache, i18n,
                 currentLanguage, isInitialized, listeners, regs, cancelled,
                 pc, local, error, running, ready, emitIdx, emitLen,
                 emitSnapshot, delivered, effects, resolution, assignedBy>>

(***************************************************************************)
(* t(key)                                                                  *)
(***************************************************************************)
\* i18n.t(key): the engine looks the key up in the resources it was given, in
\* its language and then in fallbackLng, and gives the key back when neither
\* holds it
i18n_t(key) ==
  LET held(language) ==
        /\ language \in DOMAIN i18n.resources
        /\ key \in DOMAIN i18n.resources[language].translation
  IN  IF held(i18n.language)
        THEN i18n.resources[i18n.language].translation[key]
        ELSE IF held(FALLBACK_LANGUAGE)
               THEN i18n.resources[FALLBACK_LANGUAGE].translation[key]
               ELSE key

\* t(key): without a key it returns the engine's function itself
t(key) == IF key = NoValue THEN "i18n.t" ELSE i18n_t(key)

\* keys a caller may ask for; "missing.key" is in no table
LookupKeys == TableKeys \cup {"missing.key", NoValue}

\* a caller translates a key
Translate(key) ==
  /\ running = {}
  /\ lastCall' = Call("t", key, t(key), FALSE)
  /\ UNCHANGED <<languageSource, store, deviceLocales, translationCache, i18n,
                 currentLanguage, isInitialized, listeners, regs, cancelled,
                 pc, local, error, running, ready, emitIdx, emitLen,
                 emitSnapshot, delivered, effects, resolution, assignedBy>>

(***************************************************************************)
(* The application is restarted: the module is loaded afresh, over the     *)
(* store and the device as they are                                        *)
(***************************************************************************)
Restart ==
  /\ running = {}
  /\ lastCall' = NoCall
  /\ translationCache' = EmptyMap
  /\ i18n' = [language |-> NoValue, resources |-> EmptyMap,
              isInitialized |-> FALSE]
  /\ currentLanguage' = FALLBACK_LANGUAGE
  /\ isInitialized' = FALSE
  /\ listeners' = <<>>
  /\ regs' = <<>>
  /\ cancelled' = {}
  /\ pc' = [p \in Procs |-> "idle"]
  /\ local' = [p \in Procs |-> NoValue]
  /\ error' = [p \in Procs |-> NoValue]
  /\ running' = {}
  /\ ready' = <<>>
  /\ emitIdx' = 0
  /\ emitLen' = 0
  /\ emitSnapshot' = <<>>
  /\ delivered' = <<>>
  /\ effects' = [p \in ChangeProcs |-> <<>>]
  /\ resolution' = NoResolution
  /\ assignedBy' = "constructor"
  /\ UNCHANGED <<languageSource, store, deviceLocales>>

(***************************************************************************)
(* The service                                                             *)
(***************************************************************************)
WriteFaults == SUBSET {CacheKey(l) : l \in AppLanguage}

\* the steps of initialize calls, their inputs drawn from the sets given
InitializeSteps(translationSet, faultSet, writeFaultSet) ==
  \/ \E p \in InitProcs, translations \in translationSet,
        allowLanguageOverride \in BOOLEAN, faults \in faultSet,
        writeFaults \in writeFaultSet :
       Initialize(p, translations, allowLanguageOverride, faults, writeFaults)
  \/ \E p \in InitProcs : InitializeCallEngine(p)
  \/ \E p \in InitProcs : EngineInitResolve(p)
  \/ \E p \in InitProcs : EngineInitReject(p)
  \/ \E p \in InitProcs : InitializeResume(p)
  \/ \E p \in InitProcs : InitializeCatch(p)

\* the steps of changeLanguage calls
ChangeSteps ==
  \/ \E p \in ChangeProcs, language \in LanguageCodes : ChangeLanguage(p, language)
  \/ \E p \in ChangeProcs : EngineChangeResolve(p)
  \/ \E p \in ChangeProcs : EngineChangeReject(p)
  \/ \E p \in ChangeProcs : ChangeCatch(p)
  \/ \E p \in ChangeProcs : ChangeAssign(p)
  \/ \E p \in ChangeProcs, fails \in BOOLEAN : ChangeSave(p, fails)
  \/ \E p \in ChangeProcs : EmitBegin(p)
  \/ \E p \in ChangeProcs, react \in 0 .. MaxSubs : EmitStep(p, react)
  \/ \E p \in ChangeProcs : EmitEnd(p)
  \/ \E p \in ChangeProcs : ChangeReturn(p)

\* callers subscribing (at most `limit` times over a run) and unsubscribing
EmitterSteps(callbacks, limit) ==
  \/ \E callback \in callbacks : Subscribe(callback, limit)
  \/ \E r \in 1 .. limit : Unsubscribe(r)

(***************************************************************************)
(* Spec: the facade's life cycle.  A first launch or a relaunch over a     *)
(* saved language; initialize and changeLanguage calls overlap at their    *)
(* awaits; storage reads and clearAll do not fail.                         *)
(***************************************************************************)
Init ==
  \E saved \in {NoValue, "fr"} : InitState(saved, "en", "fr")

Next ==
  \/ InitializeSteps({NoTranslations, AppTranslations, CustomTranslations},
                     {{}}, {{}})
  \/ ChangeSteps
  \/ EmitterSteps({"A"}, LifecycleSubs)
  \/ ClearCache(FALSE)

Spec == Init /\ [][Next]_vars

(***************************************************************************)
(* SpecResolve: language resolution at startup, over every stored override,*)
(* stored saved language and device locale, with every read fault.         *)
(***************************************************************************)
InitResolve ==
  \E saved \in StoredChoices, override \in StoredChoices, device \in StoredChoices :
    InitState(saved, override, device)

NextResolve == InitializeSteps({NoTranslations}, ReadFaults, {{}})

SpecResolve == InitResolve /\ [][NextResolve]_vars

(***************************************************************************)
(* SpecChange: changeLanguage and the change emitter, with storage write   *)
(* faults, over every saved language.                                      *)
(***************************************************************************)
InitChange ==
  \E saved \in StoredChoices : InitState(saved, NoValue, NoValue)

NextChange ==
  \/ ChangeSteps
  \/ EmitterSteps(Callbacks, MaxSubs)

SpecChange == InitChange /\ [][NextChange]_vars

(***************************************************************************)
(* SpecTables: the resource module and the loading of the cache, over      *)
(* every content of en.json and fr.json and every table a caller passes.   *)
(***************************************************************************)
InitTables ==
  /\ languageSource \in [AppLanguage -> ReferenceTables \cup RawTables]
  /\ languageSource.en \in ReferenceTables
  /\ languageSource.fr \in RawTables
  /\ StartState(NoValue, NoValue, "fr")

NextTables ==
  \/ InitializeSteps(Overrides, {{}}, {{}})
  \/ \E source \in AppLanguage : ListMissing(source)

SpecTables == InitTables /\ [][NextTables]_vars

(***************************************************************************)
(* SpecSession: a session of the shipped application in which the cache is *)
(* loaded, cleared and counted and keys are translated; clearAll and the   *)
(* writes of the cache mirrors may fail.                                   *)
(***************************************************************************)
InitSession ==
  \E saved \in {NoValue, "fr"}, override \in {NoValue, "de"} :
    InitState(saved, override, "en")

NextSession ==
  \/ InitializeSteps({NoTranslations, CustomTranslations}, {{}}, WriteFaults)
  \/ EmitterSteps({"A"}, LifecycleSubs)
  \/ \E fails \in BOOLEAN : ClearCache(fails)
  \/ GetCacheStats
  \/ \E key \in LookupKeys : Translate(key)

SpecSession == InitSession /\ [][NextSession]_vars

(***************************************************************************)
(* SpecRestart: languages are changed and listened to, the cache is        *)
(* cleared and the process is restarted over the store it left; the       *)
(* override stored is not a supported language; clearAll and the write of  *)
(* current_language may fail.                                              *)
(***************************************************************************)
InitRestart ==
  \E saved \in {NoValue, "en"} : InitState(saved, "de", "en")

NextRestart ==
  \/ InitializeSteps({NoTranslations}, {{}}, {{}})
  \/ ChangeSteps
  \/ EmitterSteps({"A"}, LifecycleSubs)
  \/ \E fails \in BOOLEAN : ClearCache(fails)
  \/ Restart

SpecRestart == InitRestart /\ [][NextRestart]_vars

(***************************************************************************)
(* Properties                                                              *)
(***************************************************************************)
\* the precedence chain as the specification words it: the first level that
\* holds a supported language wins (a failed read holds none)
Precedence(r) ==
  IF r.allow /\ r.override \in AppLanguage
    THEN r.override
    ELSE IF r.saved \in AppLanguage
           THEN r.saved
           ELSE IF r.device \in AppLanguage
                  THEN r.device
                  ELSE FALLBACK_LANGUAGE

Faulted(r) == "throws" \in {r.override, r.saved, r.device}

\* C1: with no read fault, for every stored override, stored saved language,
\* device locale and allowOverride flag, getInitialLanguage returns the first
\* supported value of: the override (when allowed), the saved language, the
\* device language; and the fallback language when there is none.
C1_ResolutionPrecedence ==
  (resolution # NoResolution /\ ~Faulted(resolution))
    => resolution.result = Precedence(resolution)

\* the specification's example: override fr, saved en, device en, override allowed
C1_Witness ==
  /\ resolution.allow
  /\ resolution.override = "fr"
  /\ resolution.saved = "en"
  /\ resolution.device = "en"
  /\ resolution.result = "fr"
  /\ \E p \in InitProcs : pc[p] = "awaitLoad" /\ local[p] = "fr"

\* C2: a resolution in which reads fail still returns a supported language:
\* each failed read counts as no value at its level, the next level decides,
\* and when all three reads fail the result is the fallback language; the
\* initialize call goes on to load the translations.
C2_ResolutionNeverFails ==
  (resolution # NoResolution /\ Faulted(resolution))
    => /\ resolution.result \in AppLanguage
       /\ resolution.result = Precedence(resolution)
       /\ ({resolution.override, resolution.saved, resolution.device} = {"throws"}
             => resolution.result = FALLBACK_LANGUAGE)
       /\ \E p \in InitProcs :
            pc[p] = "awaitLoad" /\ local[p] = resolution.result

\* a failed read of the override with a stored saved language deciding
C2_Witness ==
  /\ resolution.allow
  /\ resolution.override = "throws"
  /\ resolution.saved = "fr"
  /\ resolution.result = "fr"
  /\ getString(STORAGE_KEYS.LANGUAGE_OVERRIDE) = "en"

\* a changeLanguage call p starts in this step
ChangeCalled(p) ==
  /\ Free(pc[p])
  /\ local'[p] # NoValue
  /\ <<pc[p], local[p], error[p]>> # <<pc'[p], local'[p], error'[p]>>

\* C3: a changeLanguage call whose target is outside the supported set throws
\* the unsupported-language error at once and changes nothing: not the active
\* language, the engine, the store, the listeners, nor what they were sent.
C3_UnsupportedRejected ==
  [][\A p \in ChangeProcs :
       (ChangeCalled(p) /\ local'[p] \notin AppLanguage)
         => /\ pc'[p] = "threw"
            /\ error'[p] = "UnsupportedLanguageError"
            /\ UNCHANGED <<currentLanguage, i18n, store, translationCache,
                           listeners, delivered, isInitialized>>]_vars

C3_Witness ==
  \E p \in ChangeProcs :
    /\ pc[p] = "threw"
    /\ error[p] = "UnsupportedLanguageError"
    /\ local[p] = "de"
    /\ currentLanguage = "fr"
    /\ getString(STORAGE_KEYS.CURRENT_LANGUAGE) = "fr"
    /\ Len(listeners) > 0

IsPrefix(a, b) ==
  /\ Len(a) <= Len(b)
  /\ \A i \in 1 .. Len(a) : a[i] = b[i]

\* the effects of a call, a failed write counted as the write
Kinds(log) ==
  [i \in 1 .. Len(log) |-> IF log[i] = "persist failed" THEN "persist" ELSE log[i]]

\* C4 as claimed: engine switch, then the write of current_language, then the
\* assignment of the active language, then the emit.
C4_ClaimedOrder ==
  \A p \in ChangeProcs :
    IsPrefix(Kinds(effects[p]), <<"engine", "persist", "state", "emit">>)

\* C4 as amended: engine switch, then the assignment of the active language,
\* then the write of current_language, then the emit.
C4_EffectOrder ==
  \A p \in ChangeProcs :
    IsPrefix(Kinds(effects[p]), <<"engine", "state", "persist", "emit">>)

C4_Witness ==
  \E p \in ChangeProcs :
    /\ pc[p] = "exit"
    /\ effects[p] = <<"engine", "state", "persist", "emit">>
    /\ Len(delivered) > 0
    /\ currentLanguage = "fr"

\* how often the last emit invoked the listener of subscribe call r with a language
Deliveries(r, language) ==
  Cardinality({i \in 1 .. Len(delivered) :
                 delivered[i].reg = r /\ delivered[i].language = language})

\* the subscribe calls whose listener was registered when the last emit began
RegisteredAtEmit == {emitSnapshot[i].reg : i \in 1 .. Len(emitSnapshot)}

\* the write of current_language by call p fails in this step
PersistFails(p) ==
  pc[p] = "save" /\ Len(effects'[p]) = 3 /\ effects'[p][3] = "persist failed"

\* C5: a changeLanguage whose write of current_language failed ends without
\* error with the active language set to the target and every listener that
\* was registered when it emitted notified with the target; the store is as
\* it was before the write.
C5_PersistFailureClaim ==
  /\ [](\A p \in ChangeProcs :
          (pc[p] = "exit" /\ effects[p] = <<"engine", "state", "persist failed", "emit">>)
            => /\ error[p] = NoValue
               /\ currentLanguage = local[p]
               /\ \A r \in RegisteredAtEmit : Deliveries(r, local[p]) = 1)
  /\ [][\A p \in ChangeProcs :
          (pc[p] = "save" /\ Len(effects'[p]) = 3 /\ effects'[p][3] = "persist failed")
            => store' = store]_vars

\* the part of C5 that the code keeps: no error, the active language set, the
\* emit run, the store untouched
C5_PersistFailureTolerated ==
  /\ [](\A p \in ChangeProcs :
          (pc[p] = "exit" /\ effects[p] = <<"engine", "state", "persist failed", "emit">>)
            => /\ error[p] = NoValue
               /\ currentLanguage = local[p]
               /\ \A i \in 1 .. Len(delivered) : delivered[i].language = local[p])
  /\ [][\A p \in ChangeProcs :
          (pc[p] = "save" /\ Len(effects'[p]) = 3 /\ effects'[p][3] = "persist failed")
            => store' = store]_vars

\* an initialize call p starts in this step
InitializeCalled(p) ==
  /\ Free(pc[p])
  /\ <<pc[p], error[p]>> # <<pc'[p], error'[p]>>

\* C6: an initialize call made while the facade is Ready returns at once, and
\* leaves the active language, the cache, the store, the engine and the
\* listeners as they were, notifying nobody.
C6_InitializeIdempotent ==
  [][\A p \in InitProcs :
       (isInitialized /\ InitializeCalled(p))
         => /\ pc'[p] = "returned early"
            /\ UNCHANGED <<currentLanguage, isInitialized, translationCache,
                           store, i18n, listeners, delivered, resolution>>]_vars

\* a second initialize returned early after the cache was cleared and a
\* changeLanguage set a language the resolver would not have chosen
C6_Witness ==
  \E p \in InitProcs :
    /\ pc[p] = "returned early"
    /\ isInitialized
    /\ assignedBy = "changeLanguage"
    /\ translationCache = EmptyMap
    /\ Len(listeners) > 0

\* C7: when the engine's setup throws, initialize throws the error and leaves
\* isInitialized and the active language as they were; isInitialized is never
\* true before the engine was set up; and an initialize call made while the
\* facade is not Ready resolves the language and loads the translations again.
C7_FailedInitialize ==
  /\ [](isInitialized => i18n.isInitialized)
  /\ [][\A p \in InitProcs :
          /\ (pc[p] = "rejected" /\ pc'[p] # "rejected")
               => /\ pc'[p] = "threw"
                  /\ error'[p] = "InitializationError"
                  /\ UNCHANGED <<isInitialized, currentLanguage>>
          /\ (~isInitialized /\ InitializeCalled(p))
               => /\ pc'[p] = "awaitLoad"
                  /\ resolution' # NoResolution
                  /\ DOMAIN translationCache' = AppLanguage]_vars

\* initialize threw and the facade is still Uninitialized, with the language
\* it was constructed with
C7_Witness ==
  \E p \in InitProcs :
    /\ pc[p] = "threw"
    /\ error[p] = "InitializationError"
    /\ ~isInitialized
    /\ ~i18n.isInitialized
    /\ assignedBy = "constructor"

\* C8: initialization assigns the active language once, before any other
\* assignment, and afterwards only changeLanguage changes it.
C8_SingleInitialAssignment ==
  [][/\ \A p \in InitProcs :
          (pc[p] = "resume" /\ pc'[p] = "returned") => assignedBy = "constructor"
     /\ (assignedBy # "constructor" /\ currentLanguage' # currentLanguage)
          => assignedBy' = "changeLanguage"]_vars

\* C9: when a changeLanguage(L) is about to return, every listener that was
\* registered when it emitted has been invoked exactly once, with L, and no
\* other listener has been invoked.  (With no subscribe or unsubscribe during
\* the call's await, those are the listeners registered before the call.)
C9_ExactlyOnceClaim ==
  \A p \in ChangeProcs :
    pc[p] = "exit"
      => /\ \A r \in RegisteredAtEmit :
              /\ Deliveries(r, local[p]) = 1
              /\ \A i \in 1 .. Len(delivered) :
                   delivered[i].reg = r => delivered[i].language = local[p]
         /\ \A i \in 1 .. Len(delivered) : delivered[i].reg \in RegisteredAtEmit

\* C10: within one emit the listeners are invoked in the order of their
\* subscribe calls, and the emit holds the thread from its first listener to
\* its last.
C10_SubscriptionOrder ==
  /\ \A i, j \in 1 .. Len(delivered) :
       i < j => delivered[i].reg < delivered[j].reg
  /\ \A p \in ChangeProcs : pc[p] = "emitting" => running = {p}

C10_Witness ==
  /\ Len(delivered) = 2
  /\ delivered[1].callback = "B"
  /\ delivered[2].callback = "A"

\* C11: when listeners unsubscribe themselves or others during an emit, the
\* emit ends without error and every listener that was registered when the
\* emit began and was not itself unsubscribed has been invoked exactly once.
C11_SnapshotClaim ==
  \A p \in ChangeProcs :
    pc[p] = "exit"
      => /\ error[p] = NoValue
         /\ \A r \in RegisteredAtEmit \ cancelled :
              Deliveries(r, local[p]) = 1

\* call p of initialize runs its loadTranslations pass in this step
LoadPass(p) == Free(pc[p]) /\ pc'[p] = "awaitLoad"

\* the mirror of language l in the store is the same before and after the step
MirrorKept(l) ==
  /\ (CacheKey(l) \in DOMAIN store') = (CacheKey(l) \in DOMAIN store)
  /\ CacheKey(l) \in DOMAIN store => store'[CacheKey(l)] = store[CacheKey(l)]

\* C12: a loading pass leaves the cache with one entry for each supported
\* language; it neither replaces an entry that was present nor computes it
\* again (its mirror in the store is not written), whatever tables the caller
\* passes; and an entry goes or changes only in a clearCache step.
C12_LoadIdempotent ==
  [][/\ \A p \in InitProcs :
          LoadPass(p)
            => /\ DOMAIN translationCache' = AppLanguage
               /\ \A l \in DOMAIN translationCache :
                    translationCache'[l] = translationCache[l] /\ MirrorKept(l)
     /\ \A l \in DOMAIN translationCache :
          (l \notin DOMAIN translationCache'
             \/ translationCache'[l] # translationCache[l])
            => lastCall'.op = "clearCache"]_vars

\* a second pass ran over a full cache: the first pass cached the caller's
\* table for fr and could not write its mirror, and the second pass left the
\* mirror unwritten
C12_Witness ==
  /\ pc[2] = "awaitLoad"
  /\ pc[1] \in {"awaitEngine", "resume"}
  /\ translationCache["fr"]["greeting"] = "Salut"
  /\ CacheKey("fr") \notin DOMAIN store
  /\ CacheKey("en") \in DOMAIN store

\* getCacheStats is called in this step, right after a clearCache
StatsAfterClear == lastCall.op = "clearCache" /\ lastCall'.op = "getCacheStats"

C14_ClearKeepsSession ==
  [][lastCall'.op = "clearCache"
       => /\ UNCHANGED <<currentLanguage, isInitialized, listeners, i18n>>
          /\ \A key \in LookupKeys : t(key)' = t(key)]_vars

\* the cache of a Ready session with a subscriber was cleared, and t still
\* finds the caller's French table in the engine
C14_Witness ==
  /\ lastCall.op = "clearCache"
  /\ isInitialized
  /\ currentLanguage = "fr"
  /\ Len(listeners) > 0
  /\ translationCache = EmptyMap
  /\ t("greeting") = "Salut"
  /\ t("app.name") = "NotesVault"

\* the canonical keys: the keys of the reference language's table
CanonicalKeys == DOMAIN languageSource.en

\* C15: whatever en.json, fr.json and the caller's tables hold, every cache
\* entry has exactly the canonical keys.
C15_CompletenessClaim ==
  \A l \in DOMAIN translationCache :
    DOMAIN translationCache[l] = CanonicalKeys

\* the part of C15 that the code keeps: no canonical key is missing
C15_FullCoverage ==
  \A l \in DOMAIN translationCache :
    CanonicalKeys \subseteq DOMAIN translationCache[l]

\* C18: listMissingStringsForLanguage(L) maps every key of the reference
\* table that L's raw table lacks to its reference value and holds no other
\* key; for the reference language it is empty.
C18_MissingKeys ==
  lastCall.op = "listMissingStringsForLanguage"
    => LET L == lastCall.argument
           output == lastCall.output
       IN  /\ DOMAIN output = CanonicalKeys \ DOMAIN languageSource[L]
           /\ \A key \in DOMAIN output : output[key] = languageSource.en[key]
           /\ L = "en" => output = EmptyMap

\* fr.json lacks a canonical key and holds a key that is not canonical
C18_Witness ==
  /\ lastCall.op = "listMissingStringsForLanguage"
  /\ lastCall.argument = "fr"
  /\ lastCall.output = [k \in {"greeting"} |-> "reference"]
  /\ DOMAIN languageSource.fr = {"app.name"}

\* the value the specification's three-way merge gives a key of language l
ThreeWay(l, translations, key) ==
  IF l \in DOMAIN translations /\ key \in DOMAIN translations[l]
    THEN translations[l][key]
    ELSE IF key \in DOMAIN languageSource[l]
           THEN languageSource[l][key]
           ELSE languageSource.en[key]

\* C19: the entry a loading pass creates for a language holds, for each of
\* its keys, the value of the caller's table for that language if it has the
\* key, else the value of the language's raw table if it has the key, else
\* the reference value; without a caller's table for the language the entry
\* is the factory's table.
C19_ThreeWayMerge ==
  [][\A p \in InitProcs :
       LoadPass(p)
         => \A l \in AppLanguage \ DOMAIN translationCache :
              LET translations == lastCall'.argument
                  entry == translationCache'[l]
              IN  /\ \A key \in DOMAIN entry :
                       entry[key] = ThreeWay(l, translations, key)
                  /\ l \notin DOMAIN translations
                       => entry = languageFactories(l)]_vars

\* an entry for fr with a value from each of the three tables
C19_Witness ==
  /\ lastCall.op = "initialize"
  /\ "fr" \in DOMAIN translationCache
  /\ DOMAIN languageSource.en = TableKeys
  /\ DOMAIN languageSource.fr = TableKeys
  /\ "fr" \in DOMAIN lastCall.argument
  /\ DOMAIN lastCall.argument["fr"] = {"greeting"}
  /\ translationCache["fr"] = ("greeting" :> "override") @@ ("app.name" :> "raw")
  /\ translationCache["en"]["app.name"] = "reference"

\* what a restarted process would resolve from the store and the device as
\* they are, with the override allowed and no read failing
RestartLanguage == getInitialLanguage(TRUE, {})

\* call p of changeLanguage writes current_language in this step
SaveSucceeds(p) ==
  /\ pc[p] = "save"
  /\ Len(effects'[p]) = 3
  /\ effects'[p][3] = "persist"

\* no changeLanguage call takes this step
NoChangeStep == \A p \in ChangeProcs : pc'[p] = pc[p]

\* an initialize call resolves the language in this step, override allowed
Resolves(p) == LoadPass(p) /\ resolution'.allow

\* C16 as claimed: once changeLanguage(L) has written current_language, a
\* restarted process resolves L, and no step other than a changeLanguage
\* step changes what a restarted process resolves from a saved language; the
\* initialize of the restarted process resolves just that.
C16_RoundTripClaim ==
  [][/\ \A p \in ChangeProcs : SaveSucceeds(p) => RestartLanguage' = local[p]
     /\ (NoChangeStep /\ getSavedLanguage({}) # NoValue)
          => RestartLanguage' = RestartLanguage
     /\ \A p \in InitProcs :
          Resolves(p) => resolution'.result = RestartLanguage]_vars

\* C16 as amended: the same, for the steps other than those of changeLanguage
\* and clearCache.
C16_RoundTrip ==
  [][/\ \A p \in ChangeProcs : SaveSucceeds(p) => RestartLanguage' = local[p]
     /\ (NoChangeStep /\ getSavedLanguage({}) # NoValue
           /\ lastCall'.op # "clearCache")
          => RestartLanguage' = RestartLanguage
     /\ \A p \in InitProcs :
          Resolves(p) => resolution'.result = RestartLanguage]_vars

\* a restarted process resolves fr, which only a changeLanguage('fr') can
\* have saved, on a device whose language is en
C16_Witness ==
  /\ assignedBy = "constructor"
  /\ resolution.allow
  /\ resolution.saved = "fr"
  /\ resolution.device = "en"
  /\ resolution.result = "fr"
  /\ \E p \in InitProcs : pc[p] = "awaitLoad" /\ local[p] = "fr"

\* C17: the only error an initialize call gives its caller is the
\* initialization failure, and the only error a changeLanguage call gives
\* its caller is the unsupported-language error.
C17_PropagationClaim ==
  /\ \A p \in InitProcs : error[p] \in {NoValue, "InitializationError"}
  /\ \A p \in ChangeProcs : error[p] \in {NoValue, "UnsupportedLanguageError"}

\* the part of C17 that the code keeps: a failed write of current_language
\* reaches no caller
C17_StorageFailureSwallowed ==
  [][\A p \in ChangeProcs :
       PersistFails(p) => error'[p] = NoValue /\ pc'[p] = "emit"]_vars

\* the entries of a callback in the listener list: how often an emit that
\* begins now invokes it
Entries(callback) ==
  Cardinality({i \in 1 .. Len(listeners) : listeners[i].callback = callback})

\* the subscribe calls of a callback whose unsubscribe function was not called
LiveRegistrations(callback) ==
  Cardinality({r \in 1 .. Len(regs) : regs[r] = callback /\ r \notin cancelled})

\* C20: after any subscribe and unsubscribe calls, repeated ones and the
\* same callback subscribed twice included, a callback is in the listener
\* list as often as it has registrations whose own unsubscribe function was
\* not called.
C20_OwnRegistrationClaim ==
  \A callback \in Callbacks : Entries(callback) = LiveRegistrations(callback)

\* the part of C20 that the code keeps: with every callback subscribed at
\* most once, each unsubscribe function removes its own registration only
C20_DistinctCallbacks ==
  (\A r1, r2 \in 1 .. Len(regs) : regs[r1] = regs[r2] => r1 = r2)
    => /\ C20_OwnRegistrationClaim
       /\ \A i \in 1 .. Len(listeners) : listeners[i].reg \notin cancelled

====
